---- MODULE Spec2Model ----
(***************************************************************************)
(* A model of option-help (src/option-help.js): the line wrapper, the text *)
(* wrapper, the help table renderer and the minimist option helpers.       *)
(*                                                                         *)
(* A JavaScript string is a sequence of one-character strings, so that     *)
(* split, substr, repeat and concatenation are computed, not assumed.      *)
(* A JavaScript value of a parameter that may be undefined, a boolean or   *)
(* a number is a tagged record (Undefined, Bool(b), Num(n)).               *)
(***************************************************************************)
EXTENDS Integers, Sequences, FiniteSets, TLC

VARIABLES
    op,                \* the exported function called last ("none" at start)
    args,              \* the arguments of that call, as the caller passed them
    ret,               \* what the call returned or left in its arguments
    multiplesAllowed   \* the caller's multiplesAllowed array, kept across calls

vars == <<op, args, ret, multiplesAllowed>>

----------------------------------------------------------------------------
(* Bounds of the model *)

MaxLineLen == 5        \* longest line given to wrapLine
MaxWidth == 4          \* largest maxWidth given to wrapLine and wrapText
MaxMargin == 3         \* largest leftMarginSize given to wrapLine
MaxTextLen == 4        \* longest text given to wrapText
MaxDelta == 2          \* largest |autoIndentDelta| given to wrapText
MaxGroupLen == 2       \* most entries in a group given to generateHelpGroup
MaxLeftMargin == 1     \* largest leftMargin given to generateHelpGroup
MaxRightMargin == 6    \* largest rightMargin given to generateHelpGroup
MaxArrayLen == 2       \* longest array of values of an option
MaxCalls == 2          \* most calls of keepLastOfDuplicates with one array
MaxArgvLen == 3        \* longest argv given to lastOfMutuallyExclusive
MaxAlternatives == 2   \* most alternatives given to lastOfMutuallyExclusive
MaxBooleans == 2       \* most names in configOptions.boolean

----------------------------------------------------------------------------
(* JavaScript values and strings *)

SP == " "
NL == "\n"

Undefined == [t |-> "undefined"]
Num(n) == [t |-> "number", v |-> n]
Bool(b) == [t |-> "boolean", v |-> b]

IsUndefined(x) == x.t = "undefined"

\* String.prototype.repeat applied to a one-character string (count >= 0).
Repeat(c, n) == [i \in 1..n |-> c]

\* All strings over an alphabet with at most n characters.
RECURSIVE StringsUpTo(_, _)
StringsUpTo(alphabet, n) ==
    IF n = 0 THEN {<<>>}
    ELSE LET shorter == StringsUpTo(alphabet, n - 1)
         IN shorter \cup {Append(s, c) : s \in shorter, c \in alphabet}

\* String.prototype.split with a one-character separator.
RECURSIVE Split(_, _)
Split(s, sep) ==
    IF \A i \in 1..Len(s) : s[i] # sep
    THEN <<s>>
    ELSE LET i == CHOOSE k \in 1..Len(s) :
                      s[k] = sep /\ \A j \in 1..(k - 1) : s[j] # sep
         IN <<SubSeq(s, 1, i - 1)>> \o Split(SubSeq(s, i + 1, Len(s)), sep)

\* Array.prototype.join with a one-character separator.
RECURSIVE Join(_, _)
Join(strs, sep) ==
    IF strs = <<>> THEN <<>>
    ELSE IF Len(strs) = 1 THEN strs[1]
    ELSE strs[1] \o <<sep>> \o Join(Tail(strs), sep)

----------------------------------------------------------------------------
(* wrapLine *)

\* A plausible slip in the width test: the separating space is not counted.
FitsIgnoringDelim(run, delim, word, maxWidth) ==
    Len(run) + Len(word) <= maxWidth

\* if (run.length + delim.length + word.length <= maxWidth)
Fits(run, delim, word, maxWidth) ==
    Len(run) + Len(delim) + Len(word) <= maxWidth

\* A plausible slip: a run is pushed only when it holds something.
WrapStepSkipsEmptyRun(st, word, maxWidth, leftMargin) ==
    IF Fits(st.run, st.delim, word, maxWidth)
    THEN [wrappedLines |-> st.wrappedLines,
          run |-> st.run \o st.delim \o word,
          delim |-> <<SP>>]
    ELSE [wrappedLines |-> IF st.run # <<>> THEN Append(st.wrappedLines, st.run)
                           ELSE st.wrappedLines,
          run |-> leftMargin \o word,
          delim |-> st.delim]

\* A plausible slip in the wrap branch: the new run starts without the margin.
WrapStepNoMargin(st, word, maxWidth, leftMargin) ==
    IF Fits(st.run, st.delim, word, maxWidth)
    THEN [wrappedLines |-> st.wrappedLines,
          run |-> st.run \o st.delim \o word,
          delim |-> <<SP>>]
    ELSE [wrappedLines |-> Append(st.wrappedLines, st.run),
          run |-> word,
          delim |-> st.delim]

\* The callback of words.forEach: one word added to the run, or the run
\* closed and a new one started with the margin and the word.
WrapStep(st, word, maxWidth, leftMargin) ==
    IF Fits(st.run, st.delim, word, maxWidth)
    THEN [wrappedLines |-> st.wrappedLines,
          run |-> st.run \o st.delim \o word,
          delim |-> <<SP>>]
    ELSE [wrappedLines |-> Append(st.wrappedLines, st.run),
          run |-> leftMargin \o word,
          delim |-> st.delim]

\* words.forEach(...) over the words in order.
RECURSIVE WrapWords(_, _, _, _)
WrapWords(words, st, maxWidth, leftMargin) ==
    IF words = <<>> THEN st
    ELSE WrapWords(Tail(words), WrapStep(st, Head(words), maxWidth, leftMargin),
                   maxWidth, leftMargin)

\* A plausible slip: the empty line gives no line at all.
EmptyLineDropped == <<>>

\* if (line.length === 0) return [''];
EmptyLineResult == << <<>> >>

\* exports.wrapLine; leftMarginSize is Undefined or Num(n).
wrapLine(line, maxWidth, leftMarginSize) ==
    IF Len(line) = 0 THEN EmptyLineResult
    ELSE LET size == IF IsUndefined(leftMarginSize) THEN 0 ELSE leftMarginSize.v
             leftMargin == Repeat(SP, size)
             st == WrapWords(Split(line, SP),
                             [wrappedLines |-> <<>>, run |-> <<>>, delim |-> <<>>],
                             maxWidth, leftMargin)
         IN IF st.delim # <<>>
            THEN Append(st.wrappedLines, st.run)
            ELSE st.wrappedLines

----------------------------------------------------------------------------
(* wrapText *)

\* The truth value JavaScript gives a value in a condition.
Truthy(x) ==
    CASE x.t = "undefined" -> FALSE
      [] x.t = "boolean" -> x.v
      [] x.t = "number" -> x.v # 0

\* line.match(/^ */)[0].length
RECURSIVE LeadingSpaces(_)
LeadingSpaces(line) ==
    IF line # <<>> /\ Head(line) = SP THEN 1 + LeadingSpaces(Tail(line)) ELSE 0

\* A plausible slip: the test for the delta 0 is left out, so that 0 is
\* taken as "no auto-indenting".
AutoIndentingTruthyOnly(autoIndentDelta) == Truthy(autoIndentDelta)

\* var autoIndenting = (autoIndentDelta || autoIndentDelta === 0);
AutoIndenting(autoIndentDelta) ==
    Truthy(autoIndentDelta) \/ (autoIndentDelta.t = "number" /\ autoIndentDelta.v = 0)

\* if (autoIndentDelta === true) autoIndentDelta = 0;
DeltaOf(autoIndentDelta) ==
    IF autoIndentDelta.t = "boolean" /\ autoIndentDelta.v THEN 0 ELSE autoIndentDelta.v

\* The margin wrapText computes for one logical line.
LeftMarginSize(line, autoIndentDelta) ==
    IF AutoIndenting(autoIndentDelta)
    THEN LET size == LeadingSpaces(line) + DeltaOf(autoIndentDelta)
         IN IF size < 0 THEN 0 ELSE size
    ELSE 0

\* wrappedLines.forEach: each wrapped line added to the text after delim.
RECURSIVE AddWrappedLines(_, _)
AddWrappedLines(st, wrappedLines) ==
    IF wrappedLines = <<>> THEN st
    ELSE AddWrappedLines([st EXCEPT !.wrappedText = @ \o st.delim \o Head(wrappedLines),
                                    !.delim = <<NL>>],
                         Tail(wrappedLines))

\* The callback of lines.forEach: the margin of the line, the call of
\* wrapLine (recorded in calls) and the wrapped lines added to the text.
WrapTextLine(st, line, maxWidth, autoIndentDelta) ==
    LET leftMarginSize == LeftMarginSize(line, autoIndentDelta)
        wrappedLines == wrapLine(line, maxWidth, Num(leftMarginSize))
        added == AddWrappedLines(st, wrappedLines)
    IN [added EXCEPT !.calls = Append(@, [line |-> line,
                                          leftMarginSize |-> leftMarginSize,
                                          wrappedLines |-> wrappedLines])]

RECURSIVE WrapTextLines(_, _, _, _)
WrapTextLines(lines, st, maxWidth, autoIndentDelta) ==
    IF lines = <<>> THEN st
    ELSE WrapTextLines(Tail(lines),
                       WrapTextLine(st, Head(lines), maxWidth, autoIndentDelta),
                       maxWidth, autoIndentDelta)

\* exports.wrapText; autoIndentDelta is Undefined, Bool(b) or Num(n). The
\* result holds the returned string and the calls of wrapLine it made.
wrapText(text, maxWidth, autoIndentDelta) ==
    LET st == WrapTextLines(Split(text, NL),
                            [wrappedText |-> <<>>, delim |-> <<>>, calls |-> <<>>],
                            maxWidth, autoIndentDelta)
    IN [wrappedText |-> st.wrappedText, calls |-> st.calls]

----------------------------------------------------------------------------
(* generateHelpGroup; a help entry is the pair <<template, description>> *)

\* group.forEach: the length of the longest template, from maxArgLength on.
RECURSIVE MaxArgLengthFrom(_, _)
MaxArgLengthFrom(group, maxArgLength) ==
    IF group = <<>> THEN maxArgLength
    ELSE MaxArgLengthFrom(Tail(group),
                          IF Len(Head(group)[1]) > maxArgLength
                          THEN Len(Head(group)[1]) ELSE maxArgLength)

\* A plausible slip: the delimiter is left out of the description column.
LeftTextMarginNoDelim(leftMargin, maxArgLength, delim) ==
    leftMargin + maxArgLength

\* var leftTextMargin = leftMargin + maxArgLength + delim.length;
LeftTextMargin(leftMargin, maxArgLength, delim) ==
    leftMargin + maxArgLength + Len(delim)

\* if (text[text.length - 1] === "\n") text = text.substr(0, text.length - 1);
StripLastBreak(text) ==
    IF Len(text) > 0 /\ text[Len(text)] = NL
    THEN SubSeq(text, 1, Len(text) - 1)
    ELSE text

\* leftMarginSpaces + arg + argumentPadding.substr(arg.length) + delim
StartLine(arg, delim, leftMargin, maxArgLength) ==
    Repeat(SP, leftMargin) \o arg \o Repeat(SP, maxArgLength - Len(arg)) \o delim

\* A plausible slip: the blank line is put before the first entry too.
NeedsSeparatorBeforeAll(help, spaceEntries) == spaceEntries

\* if (help !== '' && spaceEntries)
NeedsSeparator(help, spaceEntries) == help # <<>> /\ spaceEntries

\* wrappedLines.forEach: each wrapped line added after startLine, which
\* from then on is a line break and the description column's spaces.
RECURSIVE AddHelpLines(_, _, _)
AddHelpLines(st, wrappedLines, textMarginSpaces) ==
    IF wrappedLines = <<>> THEN st
    ELSE AddHelpLines([help |-> st.help \o st.startLine \o Head(wrappedLines),
                       startLine |-> <<NL>> \o textMarginSpaces],
                      Tail(wrappedLines), textMarginSpaces)

\* lines.forEach: each line of the description wrapped and added.
RECURSIVE AddDescriptionLines(_, _, _, _)
AddDescriptionLines(st, lines, maxTextWidth, textMarginSpaces) ==
    IF lines = <<>> THEN st
    ELSE AddDescriptionLines(
             AddHelpLines(st, wrapLine(Head(lines), maxTextWidth, Undefined),
                          textMarginSpaces),
             Tail(lines), maxTextWidth, textMarginSpaces)

\* A plausible slip: the blank line is put after every entry.
HelpEntrySeparatorAfter(help, helpEntry, delim, leftMargin, maxArgLength, maxTextWidth, spaceEntries) ==
    LET lines == Split(StripLastBreak(helpEntry[2]), NL)
        st == AddDescriptionLines(
                  [help |-> help,
                   startLine |-> StartLine(helpEntry[1], delim, leftMargin, maxArgLength)],
                  lines, maxTextWidth,
                  Repeat(SP, LeftTextMargin(leftMargin, maxArgLength, delim)))
    IN st.help \o <<NL>> \o (IF spaceEntries THEN <<NL>> ELSE <<>>)

\* The callback of the second group.forEach: help after one more entry.
HelpEntry(help, helpEntry, delim, leftMargin, maxArgLength, maxTextWidth, spaceEntries) ==
    LET separated == IF NeedsSeparator(help, spaceEntries)
                     THEN help \o <<NL>> ELSE help
        lines == Split(StripLastBreak(helpEntry[2]), NL)
        st == AddDescriptionLines(
                  [help |-> separated,
                   startLine |-> StartLine(helpEntry[1], delim, leftMargin, maxArgLength)],
                  lines, maxTextWidth,
                  Repeat(SP, LeftTextMargin(leftMargin, maxArgLength, delim)))
    IN st.help \o <<NL>>

RECURSIVE HelpEntries(_, _, _, _, _, _, _)
HelpEntries(help, group, delim, leftMargin, maxArgLength, maxTextWidth, spaceEntries) ==
    IF group = <<>> THEN help
    ELSE HelpEntries(HelpEntry(help, Head(group), delim, leftMargin, maxArgLength,
                               maxTextWidth, spaceEntries),
                     Tail(group), delim, leftMargin, maxArgLength, maxTextWidth,
                     spaceEntries)

\* exports.generateHelpGroup
generateHelpGroup(group, delim, leftMargin, rightMargin, spaceEntries) ==
    LET maxArgLength == MaxArgLengthFrom(group, 0)
        maxTextWidth == rightMargin - LeftTextMargin(leftMargin, maxArgLength, delim)
    IN HelpEntries(<<>>, group, delim, leftMargin, maxArgLength, maxTextWidth,
                   spaceEntries)

----------------------------------------------------------------------------
(* keepLastOfDuplicates and lastOfMutuallyExclusive *)

Null == [t |-> "null"]
Str(s) == [t |-> "string", v |-> s]
\* An array object: its elements and the named properties set on it.
Arr(elems) == [t |-> "array", elems |-> elems, props |-> <<>>]
IsArray(x) == x.t = "array"

\* Array.prototype.indexOf (-1 when absent; indexes from 0).
IndexOf(arr, x) ==
    IF \E i \in 1..Len(arr) : arr[i] = x
    THEN (CHOOSE i \in 1..Len(arr) :
              arr[i] = x /\ \A j \in 1..(i - 1) : arr[j] # x) - 1
    ELSE -1

\* Array.prototype.lastIndexOf (-1 when absent; indexes from 0).
LastIndexOf(arr, x) ==
    IF \E i \in 1..Len(arr) : arr[i] = x
    THEN (CHOOSE i \in 1..Len(arr) :
              arr[i] = x /\ \A j \in (i + 1)..Len(arr) : arr[j] # x) - 1
    ELSE -1

\* arg[arg.length - 1]
LastElement(arg) ==
    IF Len(arg.elems) = 0 THEN Undefined ELSE arg.elems[Len(arg.elems)]

\* arg[key] = value on an array object, key being an option name (not an
\* index): the array keeps its elements and gets the named property.
SetArrayProperty(arg, key, value) ==
    [arg EXCEPT !.props = Append(SelectSeq(@, LAMBDA p : p[1] # key), <<key, value>>)]

\* The callback of Object.keys(args).forEach: what args[key] holds after it.
\* The assignment is to arg[key], a property of the array, not to args[key].
KeepLastOfKey(arg, key, allowed) ==
    IF IsArray(arg) /\ IndexOf(allowed, key) < 0
    THEN SetArrayProperty(arg, key, LastElement(arg))
    ELSE arg

\* A plausible slip: "_" is added to a copy, the caller's array left alone.
keepLastOfDuplicatesOnCopy(options, allowed) ==
    LET pushed == Append(allowed, "_")
    IN [args |-> [key \in DOMAIN options |-> KeepLastOfKey(options[key], key, pushed)],
        multiplesAllowed |-> allowed]

\* exports.keepLastOfDuplicates: the args object and the multiplesAllowed
\* array as the call leaves them.
keepLastOfDuplicates(options, allowed) ==
    LET pushed == Append(allowed, "_")
    IN [args |-> [key \in DOMAIN options |-> KeepLastOfKey(options[key], key, pushed)],
        multiplesAllowed |-> pushed]

\* A plausible slip: the first occurrence of the token is looked up.
LastOfStepFirstIndex(st, option, argv) ==
    LET lastIndex == IndexOf(argv, <<"-", "-">> \o option)
    IN IF lastIndex > st.greatestIndex
       THEN [lastOption |-> Str(option), greatestIndex |-> lastIndex]
       ELSE st

\* The callback of alternatives.forEach.
LastOfStep(st, option, argv) ==
    LET lastIndex == LastIndexOf(argv, <<"-", "-">> \o option)
    IN IF lastIndex > st.greatestIndex
       THEN [lastOption |-> Str(option), greatestIndex |-> lastIndex]
       ELSE st

RECURSIVE LastOfSteps(_, _, _)
LastOfSteps(st, alternatives, argv) ==
    IF alternatives = <<>> THEN st
    ELSE LastOfSteps(LastOfStep(st, Head(alternatives), argv), Tail(alternatives), argv)

\* exports.lastOfMutuallyExclusive: Null or Str(name).
lastOfMutuallyExclusive(argv, alternatives) ==
    LastOfSteps([lastOption |-> Null, greatestIndex |-> -1], alternatives, argv).lastOption

----------------------------------------------------------------------------
(* applyBooleanOffSwitch *)

\* An object (args, configOptions.alias): its keys and their values.
Obj(fields) == [t |-> "object", v |-> fields]
\* The value "-" that minimist gives to an option suffixed by "-".
Dash == Str(<<"-">>)
\* obj[key], undefined when obj has no such key.
GetKey(obj, key) == IF key \in DOMAIN obj THEN obj[key] ELSE Undefined
\* obj[key] = value: the key is added when obj does not hold it.
SetKey(obj, key, value) ==
    [k \in DOMAIN obj \cup {key} |-> IF k = key THEN value ELSE obj[k]]
\* aliases && !_.isUndefined(aliases[letter])
HasAlias(aliases, letter) ==
    ~IsUndefined(aliases) /\ letter \in DOMAIN aliases.v

\* The callback of configOptions.boolean.forEach.
OffSwitchStep(obj, letter, aliases) ==
    IF GetKey(obj, letter) = Dash
    THEN LET off == SetKey(obj, letter, Bool(FALSE))
         IN IF HasAlias(aliases, letter)
            THEN SetKey(off, aliases.v[letter], Bool(FALSE))
            ELSE off
    ELSE obj

RECURSIVE OffSwitchSteps(_, _, _)
OffSwitchSteps(obj, letters, aliases) ==
    IF letters = <<>> THEN obj
    ELSE OffSwitchSteps(OffSwitchStep(obj, Head(letters), aliases), Tail(letters), aliases)

\* exports.applyBooleanOffSwitch: the args object as the call leaves it.
applyBooleanOffSwitch(options, configOptions) ==
    IF IsUndefined(configOptions.boolean) THEN options
    ELSE OffSwitchSteps(options, configOptions.boolean.elems, configOptions.alias)

----------------------------------------------------------------------------
(* Inputs *)

WrapLineLines == StringsUpTo({SP, "a", "b"}, MaxLineLen)
Widths == (-1)..MaxWidth
MarginSizes == {Undefined} \cup {Num(n) : n \in 0..MaxMargin}

ShortTexts == StringsUpTo({SP, NL, "a"}, MaxTextLen)
AutoIndentDeltas ==
    {Undefined, Bool(FALSE), Bool(TRUE)} \cup {Num(n) : n \in (-MaxDelta)..MaxDelta}

\* The example of the specification: "  indented text that wraps" at 15.
IndentedExample ==
    <<" ", " ", "i", "n", "d", "e", "n", "t", "e", "d", " ", "t", "e", "x", "t", " ", "t", "h", "a", "t", " ", "w", "r", "a", "p", "s">>

\* All sequences over a set with at most n elements.
RECURSIVE SeqsUpTo(_, _)
SeqsUpTo(S, n) ==
    IF n = 0 THEN {<<>>}
    ELSE LET shorter == SeqsUpTo(S, n - 1)
         IN shorter \cup {Append(q, x) : q \in shorter, x \in S}

Templates == {<<>>, <<"a", "b">>}
Descriptions ==
    {<<>>,
     <<"a", "a", " ", "a", NL, NL, "a">>,
     <<"a", NL, NL>>}
Groups == SeqsUpTo(Templates \X Descriptions, MaxGroupLen)
Delims == {<<>>, <<SP>>}

\* The example of the specification: two options, delim of 2 spaces,
\* leftMargin 2, rightMargin 40.
LongOptionExample ==
    << <<<<"-", "a">>, <<"d", "e", "s", "c">>>>,
       <<<<"-", "-", "l", "o", "n", "g", "-", "o", "p", "t", "i", "o", "n">>,
         <<"l", "o", "n", "g", "e", "r", " ", "d", "e", "s", "c", "r", "i", "p", "t", "i", "o", "n", " ", "t", "e", "x", "t", " ", "t", "h", "a", "t", " ", "n", "e", "e", "d", "s", " ", "w", "r", "a", "p", "p", "i", "n", "g">>>> >>

\* The args objects minimist returns: the options "a" and "b", each absent,
\* a single value or an array of values, and the positional arguments "_".
OptionValues ==
    {Num(n) : n \in 1..2}
    \cup {Arr(q) : q \in SeqsUpTo({Num(n) : n \in 1..2}, MaxArrayLen) \ {<<>>}}
OptionArgs ==
    UNION {[keys -> OptionValues] : keys \in SUBSET {"a", "b"}}
ArgsObjects ==
    {[key \in DOMAIN o \cup {"_"} |-> IF key = "_" THEN p ELSE o[key]] :
        o \in OptionArgs, p \in {Arr(<<>>), Arr(<<Num(1)>>)}}
    \cup {[key \in {"a", "b"} |->
              IF key = "a" THEN Arr(<<Num(1), Num(2), Num(3)>>)
              ELSE Arr(<<Num(4), Num(5)>>)]}
AllowedLists == {<<>>, <<"a">>, <<"b">>, <<"a", "b">>, <<"b", "a">>}

Foo == <<"f", "o", "o">>
Bar == <<"b", "a", "r">>
Baz == <<"b", "a", "z">>
ArgvTokens == {<<"-", "-">> \o Foo, <<"-", "-">> \o Bar, <<"-", "-">> \o Baz, Foo}
Argvs == SeqsUpTo(ArgvTokens, MaxArgvLen)
Alternatives == SeqsUpTo({Foo, Bar, Baz}, MaxAlternatives)

\* The args objects and configurations given to applyBooleanOffSwitch: the
\* options "a", "b" and "c", each absent, "-", true, false or a number;
\* configOptions.boolean undefined or a list of names; configOptions.alias
\* undefined or an object mapping names to their alias.
SwitchValues == {Dash, Bool(TRUE), Bool(FALSE), Num(1)}
SwitchArgs == UNION {[keys -> SwitchValues] : keys \in SUBSET {"a", "b", "c"}}
BooleanLists == {Undefined} \cup {Arr(q) : q \in SeqsUpTo({"a", "b"}, MaxBooleans)}
AliasObjects ==
    {Undefined}
    \cup {Obj(f) : f \in UNION {[keys -> {"a", "b", "c"}] : keys \in SUBSET {"a", "b"}}}

----------------------------------------------------------------------------
(* The calls *)

Init ==
    /\ op = "none"
    /\ args = <<>>
    /\ ret = <<>>
    /\ multiplesAllowed = <<>>

CallWrapLine ==
    /\ op = "none"
    /\ \E line \in WrapLineLines, maxWidth \in Widths, leftMarginSize \in MarginSizes :
           /\ op' = "wrapLine"
           /\ args' = [line |-> line, maxWidth |-> maxWidth,
                       leftMarginSize |-> leftMarginSize]
           /\ ret' = wrapLine(line, maxWidth, leftMarginSize)
    /\ UNCHANGED multiplesAllowed

CallWrapText ==
    /\ op = "none"
    /\ \E text \in ShortTexts \cup {IndentedExample},
          maxWidth \in Widths \cup {15},
          autoIndentDelta \in AutoIndentDeltas :
           /\ op' = "wrapText"
           /\ args' = [text |-> text, maxWidth |-> maxWidth,
                       autoIndentDelta |-> autoIndentDelta]
           /\ ret' = wrapText(text, maxWidth, autoIndentDelta)
    /\ UNCHANGED multiplesAllowed

\* Called with a small group and small margins, or with the example of the
\* specification (delim of 2 spaces, leftMargin 2, rightMargin 40).
CallGenerateHelpGroup ==
    /\ op = "none"
    /\ \/ \E group \in Groups, delim \in Delims, leftMargin \in 0..MaxLeftMargin,
             rightMargin \in 0..MaxRightMargin, spaceEntries \in BOOLEAN :
              /\ op' = "generateHelpGroup"
              /\ args' = [group |-> group, delim |-> delim, leftMargin |-> leftMargin,
                          rightMargin |-> rightMargin, spaceEntries |-> spaceEntries]
              /\ ret' = generateHelpGroup(group, delim, leftMargin, rightMargin,
                                         spaceEntries)
       \/ \E spaceEntries \in BOOLEAN :
              /\ op' = "generateHelpGroup"
              /\ args' = [group |-> LongOptionExample, delim |-> <<SP, SP>>,
                          leftMargin |-> 2,
                          rightMargin |-> 40,
                          spaceEntries |-> spaceEntries]
              /\ ret' = generateHelpGroup(LongOptionExample, <<SP, SP>>,
                                         2, 40,
                                         spaceEntries)
    /\ UNCHANGED multiplesAllowed

\* The first call passes a new multiplesAllowed array; a later call passes
\* the same array, and the args object, again.
CallKeepLastOfDuplicates ==
    \/ /\ op = "none"
       /\ \E options \in ArgsObjects, allowed \in AllowedLists :
              LET after == keepLastOfDuplicates(options, allowed)
              IN /\ op' = "keepLastOfDuplicates"
                 /\ args' = [args |-> options, multiplesAllowed |-> allowed]
                 /\ ret' = after.args
                 /\ multiplesAllowed' = after.multiplesAllowed
    \/ /\ op = "keepLastOfDuplicates"
       /\ Len(SelectSeq(multiplesAllowed, LAMBDA name : name = "_")) < MaxCalls
       /\ LET after == keepLastOfDuplicates(ret, multiplesAllowed)
          IN /\ op' = "keepLastOfDuplicates"
             /\ args' = [args |-> ret, multiplesAllowed |-> multiplesAllowed]
             /\ ret' = after.args
             /\ multiplesAllowed' = after.multiplesAllowed

CallLastOfMutuallyExclusive ==
    /\ op = "none"
    /\ \E argv \in Argvs, alternatives \in Alternatives :
           /\ op' = "lastOfMutuallyExclusive"
           /\ args' = [argv |-> argv, alternatives |-> alternatives]
           /\ ret' = lastOfMutuallyExclusive(argv, alternatives)
    /\ UNCHANGED multiplesAllowed

CallApplyBooleanOffSwitch ==
    /\ op = "none"
    /\ \E options \in SwitchArgs, boolean \in BooleanLists, alias \in AliasObjects :
           LET configOptions == [boolean |-> boolean, alias |-> alias]
           IN /\ op' = "applyBooleanOffSwitch"
              /\ args' = [args |-> options, configOptions |-> configOptions]
              /\ ret' = applyBooleanOffSwitch(options, configOptions)
    /\ UNCHANGED multiplesAllowed

Next ==
    \/ CallApplyBooleanOffSwitch
    \/ CallWrapLine
    \/ CallWrapText
    \/ CallGenerateHelpGroup
    \/ CallKeepLastOfDuplicates
    \/ CallLastOfMutuallyExclusive

Spec == Init /\ [][Next]_vars

----------------------------------------------------------------------------
(* Claims about wrapLine *)

IsWrapLine == op = "wrapLine"
MarginSizeOf(leftMarginSize) ==
    IF IsUndefined(leftMarginSize) THEN 0 ELSE leftMarginSize.v
IsSpaces(s) == \A i \in 1..Len(s) : s[i] = SP
Drop(s, n) == SubSeq(s, n + 1, Len(s))
Take(s, n) == SubSeq(s, 1, n)

\* C1: for a non-empty line and margin 0, the returned lines joined with
\* single spaces split into the same words, in the same order, as the line
\* (stated for the widths of at least 1, where it already fails).
C1_WordsPreserved ==
    (IsWrapLine /\ Len(args.line) > 0 /\ MarginSizeOf(args.leftMarginSize) = 0
                /\ args.maxWidth >= 1)
        => Split(Join(ret, SP), SP) = Split(args.line, SP)

\* C2: a word longer than maxWidth - leftMarginSize is never lost: it is
\* one of the words of some returned line, whole (a line that holds a word
\* longer than maxWidth necessarily overflows the width). Stated for the
\* widths of at least 1, where it already fails.
C2_OversizedWordKept ==
    (IsWrapLine /\ args.maxWidth >= 1) =>
        LET words == Split(args.line, SP)
        IN \A i \in 1..Len(words) :
               Len(words[i]) > args.maxWidth - MarginSizeOf(args.leftMarginSize)
                   => \E j \in 1..Len(ret) :
                          \E k \in 1..Len(Split(ret[j], SP)) :
                              Split(ret[j], SP)[k] = words[i]

\* The text of returned line j after the margin that continuation lines carry.
AfterMargin(j) ==
    IF j = 1 THEN ret[j] ELSE Drop(ret[j], MarginSizeOf(args.leftMarginSize))
HoldsOneWord(j) ==
    /\ j > 1 => /\ Len(ret[j]) >= MarginSizeOf(args.leftMarginSize)
                /\ IsSpaces(Take(ret[j], MarginSizeOf(args.leftMarginSize)))
    /\ Len(Split(AfterMargin(j), SP)) = 1

\* C3: every returned line has length <= maxWidth, margin spaces counted,
\* except a line that holds exactly one word, which with its margin does
\* not fit in maxWidth.
C3_WidthRespected ==
    IsWrapLine =>
        \A j \in 1..Len(ret) : Len(ret[j]) <= args.maxWidth \/ HoldsOneWord(j)

\* C3 witness: a wrap that returned a line of two words within the width and
\* a continuation line whose single word overflows it.
C3_Witness ==
    /\ IsWrapLine
    /\ args.maxWidth >= 3
    /\ \E j \in 1..Len(ret) :
           /\ Len(ret[j]) <= args.maxWidth
           /\ Len(Split(ret[j], SP)) = 2
           /\ \A k \in 1..2 : Len(Split(ret[j], SP)[k]) > 0
    /\ \E j \in 2..Len(ret) : Len(ret[j]) > args.maxWidth /\ HoldsOneWord(j)

----------------------------------------------------------------------------
(* Claims about wrapText *)

IsWrapText == op = "wrapText"
IsTrue(x) == x.t = "boolean" /\ x.v
\* The number of spaces a line begins with.
IndentOf(line) ==
    CHOOSE k \in 0..Len(line) :
        IsSpaces(Take(line, k)) /\ (k = Len(line) \/ line[k + 1] # SP)
\* The word that follows the leading spaces of a line (empty if none does).
FirstWordOf(line) == Split(line, SP)[IndentOf(line) + 1]
DropFromEach(strs, n) == [j \in 1..Len(strs) |-> Drop(strs[j], n)]

\* C4 as stated: with autoIndentDelta = true, a logical line with k >= 1
\* leading spaces that wraps is emitted with its first physical line
\* starting with the first word (the k spaces stripped, no prefix added)
\* and every continuation line starting with exactly k spaces (stated for
\* the lines whose k spaces and first word fit in maxWidth, where it
\* already fails).
C4_FirstLineStripped ==
    (IsWrapText /\ IsTrue(args.autoIndentDelta)) =>
        \A i \in 1..Len(ret.calls) :
            LET line == Split(args.text, NL)[i]
                k == IndentOf(line)
                wrapped == ret.calls[i].wrappedLines
            IN (k >= 1 /\ Len(wrapped) >= 2
                  /\ k + Len(FirstWordOf(line)) <= args.maxWidth) =>
                   /\ wrapped[1] # <<>> /\ wrapped[1][1] # SP
                   /\ \A j \in 2..Len(wrapped) : IndentOf(wrapped[j]) = k

\* C4 as amended: with autoIndentDelta = true, a logical line with k >= 1
\* leading spaces that wraps reaches wrapLine unstripped, with margin k;
\* every continuation line begins with the k margin spaces; and when the k
\* spaces and the first word fit in maxWidth, the first physical line
\* begins with the k spaces followed by the first word, and the physical
\* lines, the k margin spaces taken off the continuation lines, joined
\* with single spaces are the logical line again. The example
\* "  indented text that wraps" at width 15 gives "  indented text" and
\* "  that wraps".
C4_IndentKept ==
    (IsWrapText /\ IsTrue(args.autoIndentDelta)) =>
        /\ \A i \in 1..Len(ret.calls) :
               LET line == Split(args.text, NL)[i]
                   k == IndentOf(line)
                   first == FirstWordOf(line)
                   wrapped == ret.calls[i].wrappedLines
               IN (k >= 1 /\ Len(wrapped) >= 2) =>
                      /\ ret.calls[i].line = line
                      /\ ret.calls[i].leftMarginSize = k
                      /\ \A j \in 2..Len(wrapped) :
                             Len(wrapped[j]) >= k /\ IsSpaces(Take(wrapped[j], k))
                      /\ (k + Len(first) <= args.maxWidth) =>
                             /\ Take(wrapped[1], k + Len(first)) = Repeat(SP, k) \o first
                             /\ Join(<<wrapped[1]>> \o DropFromEach(Tail(wrapped), k), SP)
                                    = line
        /\ (args.text = IndentedExample /\ args.maxWidth = 15) =>
               ret.wrappedText = <<" ", " ", "i", "n", "d", "e", "n", "t", "e", "d", " ", "t", "e", "x", "t", "\n", " ", " ", "t", "h", "a", "t", " ", "w", "r", "a", "p", "s">>

\* C4 witness: the example of the specification has been wrapped, into two
\* physical lines that both begin with the two spaces of the logical line.
C4_Witness ==
    /\ IsWrapText
    /\ IsTrue(args.autoIndentDelta)
    /\ args.text = IndentedExample
    /\ args.maxWidth = 15
    /\ Len(ret.calls) = 1
    /\ Len(ret.calls[1].wrappedLines) = 2
    /\ \A j \in 1..2 : IndentOf(ret.calls[1].wrappedLines[j]) = 2

\* The margin the specification gives for a line and an autoIndentDelta.
ExpectedMargin(line, autoIndentDelta) ==
    CASE autoIndentDelta.t = "undefined" -> 0
      [] autoIndentDelta.t = "boolean" ->
             IF autoIndentDelta.v THEN IndentOf(line) ELSE 0
      [] autoIndentDelta.t = "number" ->
             IF IndentOf(line) + autoIndentDelta.v > 0
             THEN IndentOf(line) + autoIndentDelta.v ELSE 0

\* C5: wrapText calls wrapLine once per logical line, with the margin 0
\* when autoIndentDelta is false or omitted, the line's own leading-space
\* count when it is true, and max(0, leading-space count + N) when it is
\* an integer N; the margin depends on that line alone.
C5_MarginPerLine ==
    IsWrapText =>
        LET lines == Split(args.text, NL)
        IN /\ Len(ret.calls) = Len(lines)
           /\ \A i \in 1..Len(lines) :
                  ret.calls[i].leftMarginSize
                      = ExpectedMargin(lines[i], args.autoIndentDelta)

\* C5 witness: a negative delta applied to a text with a line it would take
\* below 0 (margin 0) and a line it leaves a positive margin.
C5_Witness ==
    /\ IsWrapText
    /\ args.maxWidth >= 1
    /\ args.autoIndentDelta.t = "number"
    /\ args.autoIndentDelta.v < 0
    /\ \E i, j \in 1..Len(ret.calls) :
           /\ IndentOf(ret.calls[i].line) + args.autoIndentDelta.v < 0
           /\ ret.calls[i].leftMarginSize = 0
           /\ ret.calls[j].leftMarginSize > 0

----------------------------------------------------------------------------
(* Claims about generateHelpGroup *)

IsHelp == op = "generateHelpGroup"
\* The length of the longest template of a group (0 for the empty group).
LongestTemplate(group) ==
    IF group = <<>> THEN 0
    ELSE CHOOSE n \in {Len(group[i][1]) : i \in 1..Len(group)} :
             \A i \in 1..Len(group) : Len(group[i][1]) <= n
\* The column at which the descriptions start.
DescColumn == args.leftMargin + LongestTemplate(args.group) + Len(args.delim)
RECURSIVE Flatten(_)
Flatten(seqs) == IF seqs = <<>> THEN <<>> ELSE Head(seqs) \o Flatten(Tail(seqs))
\* The wrapped description lines of entry i: each logical line of the
\* description, less one final line break, wrapped at the description width.
EntryWrapped(i) ==
    LET text == args.group[i][2]
        lines == Split(IF text # <<>> /\ text[Len(text)] = NL
                       THEN Take(text, Len(text) - 1) ELSE text, NL)
        width == args.rightMargin - DescColumn
    IN Flatten([l \in 1..Len(lines) |-> wrapLine(lines[l], width, Undefined)])
WrappedEntries == [i \in 1..Len(args.group) |-> EntryWrapped(i)]
\* The number of physical lines the entries before entry i take, given
\* the wrapped description lines of every entry.
RECURSIVE LinesBefore(_, _)
LinesBefore(wrapped, i) ==
    IF i <= 1 THEN 0 ELSE LinesBefore(wrapped, i - 1) + Len(wrapped[i - 1])
\* The physical lines of the returned help (the last one is what follows
\* the final line break: nothing).
HelpLines == Split(ret, NL)
\* The index in HelpLines of the first physical line of entry i.
EntryStart(wrapped, i) ==
    1 + LinesBefore(wrapped, i) + (IF args.spaceEntries THEN i - 1 ELSE 0)

EndsWithOneBreak(s) ==
    /\ Len(s) >= 1
    /\ s[Len(s)] = NL
    /\ Len(s) >= 2 => s[Len(s) - 1] # NL
NoLeadingBlankLine(s) == Len(s) >= 1 => s[1] # NL

C7_Separators ==
    IsHelp =>
        LET n == Len(args.group)
            wrapped == WrappedEntries
            lines == HelpLines
        IN /\ Len(lines) - 1
                  = LinesBefore(wrapped, n + 1)
                        + (IF args.spaceEntries /\ n >= 1 THEN n - 1 ELSE 0)
           /\ args.spaceEntries =>
                  \A i \in 2..n :
                      /\ EntryStart(wrapped, i) - 1 <= Len(lines)
                      /\ lines[EntryStart(wrapped, i) - 1] = <<>>

\* C7 witness: a help of two entries with a blank line between them, the
\* first of which has a description of several physical lines.
C7_Witness ==
    /\ IsHelp
    /\ args.spaceEntries
    /\ Len(args.group) = 2
    /\ Len(EntryWrapped(1)) >= 3
    /\ DescColumn >= 1
    /\ HelpLines[EntryStart(WrappedEntries, 2) - 1] = <<>>
    /\ Len(HelpLines) - 1 = LinesBefore(WrappedEntries, 3) + 1

\* C8: the first physical line of each entry is leftMargin spaces, the
\* template padded with spaces to the longest template, then delim, then
\* the description; every later physical line of the entry is exactly
\* leftMargin + maxArgLength + delim.length spaces and then the
\* description text. In the example of the specification the continuation
\* line is indented 17 spaces.
C8_Columns ==
    IsHelp =>
        LET all == WrappedEntries
            lines == HelpLines
            longest == LongestTemplate(args.group)
            column == DescColumn
        IN /\ \A i \in 1..Len(args.group) :
                  LET wrapped == all[i]
                      start == EntryStart(all, i)
                      template == args.group[i][1]
                  IN /\ start + Len(wrapped) - 1 <= Len(lines)
                     /\ lines[start]
                            = Repeat(SP, args.leftMargin) \o template
                                  \o Repeat(SP, longest - Len(template))
                                  \o args.delim \o wrapped[1]
                     /\ \A j \in 2..Len(wrapped) :
                            lines[start + j - 1] = Repeat(SP, column) \o wrapped[j]
           /\ (args.group = LongOptionExample /\ args.rightMargin = 40) =>
                  /\ Len(all[2]) = 2
                  /\ IndentOf(lines[EntryStart(all, 2) + 1]) = 17

\* C8 witness: the example of the specification, rendered without blank
\* lines between the entries.
C8_Witness ==
    /\ IsHelp
    /\ args.group = LongOptionExample
    /\ ~args.spaceEntries
    /\ HelpLines[1] = <<" ", " ", "-", "a", " ", " ", " ", " ", " ", " ", " ", " ", " ", " ", " ", " ", " ", "d", "e", "s", "c">>
    /\ HelpLines[2] = <<" ", " ", "-", "-", "l", "o", "n", "g", "-", "o", "p", "t", "i", "o", "n", " ", " ", "l", "o", "n", "g", "e", "r", " ", "d", "e", "s", "c", "r", "i", "p", "t", "i", "o", "n", " ", "t", "e", "x", "t">>
    /\ HelpLines[3] = <<" ", " ", " ", " ", " ", " ", " ", " ", " ", " ", " ", " ", " ", " ", " ", " ", " ", "t", "h", "a", "t", " ", "n", "e", "e", "d", "s", " ", "w", "r", "a", "p", "p", "i", "n", "g">>

----------------------------------------------------------------------------
(* Claims about keepLastOfDuplicates and lastOfMutuallyExclusive *)

IsKeepLast == op = "keepLastOfDuplicates"
InSeq(x, q) == \E i \in 1..Len(q) : q[i] = x

\* C9: after keepLastOfDuplicates(args, multiplesAllowed), every key whose
\* value was an array and which is neither in multiplesAllowed nor "_" maps
\* to the last element of that array, and every other key maps to the
\* value it had; {a: [1,2,3], b: [4,5]} with ["b"] becomes {a: 3, b: [4,5]}.
C9_LastValueKept ==
    IsKeepLast =>
        /\ DOMAIN ret = DOMAIN args.args
        /\ \A key \in DOMAIN args.args :
               LET before == args.args[key]
               IN IF IsArray(before) /\ ~InSeq(key, args.multiplesAllowed) /\ key # "_"
                  THEN ret[key] = before.elems[Len(before.elems)]
                  ELSE ret[key] = before

IsLastOf == op = "lastOfMutuallyExclusive"
TokenOf(name) == <<"-", "-">> \o name
\* The indexes of argv that hold the token of one of the alternatives.
AlternativeIndexes ==
    {i \in 1..Len(args.argv) :
        \E k \in 1..Len(args.alternatives) : args.argv[i] = TokenOf(args.alternatives[k])}

\* C10: lastOfMutuallyExclusive returns null exactly when argv holds the
\* token "--m" of no alternative m, and otherwise the alternative whose
\* token is the rightmost of all the alternatives' tokens in argv, whatever
\* the order of the alternatives.
C10_RightmostWins ==
    IsLastOf =>
        /\ (ret = Null) <=> (AlternativeIndexes = {})
        /\ AlternativeIndexes # {} =>
               \E i \in AlternativeIndexes :
                   /\ \A j \in AlternativeIndexes : j <= i
                   /\ ret = Str(SubSeq(args.argv[i], 3, Len(args.argv[i])))
                   /\ InSeq(ret.v, args.alternatives)

\* C10 witness: the example of the specification, "--foo" "--bar" "--foo"
\* with the alternatives foo and bar, has returned foo.
C10_Witness ==
    /\ IsLastOf
    /\ args.argv = <<TokenOf(Foo), TokenOf(Bar), TokenOf(Foo)>>
    /\ args.alternatives = <<Foo, Bar>>
    /\ ret = Str(Foo)

----------------------------------------------------------------------------
(* Claims about applyBooleanOffSwitch *)

IsOffSwitch == op = "applyBooleanOffSwitch"
\* The names configOptions.boolean lists whose value in args was "-".
SwitchedOff ==
    IF IsUndefined(args.configOptions.boolean) THEN {}
    ELSE {name \in DOMAIN args.args :
              /\ InSeq(name, args.configOptions.boolean.elems)
              /\ args.args[name] = Dash}
\* The aliases configOptions.alias gives to those names.
SwitchedOffAliases ==
    {args.configOptions.alias.v[name] :
        name \in {n \in SwitchedOff : HasAlias(args.configOptions.alias, n)}}

\* C11: after applyBooleanOffSwitch(args, configOptions), every name that
\* configOptions.boolean lists and whose value in args was "-" maps to
\* false, and so does its alias when configOptions.alias gives it one;
\* every other key of args keeps its value; and when configOptions has no
\* boolean names args is unchanged.
C11_OffSwitchApplied ==
    IsOffSwitch =>
        /\ \A name \in SwitchedOff : ret[name] = Bool(FALSE)
        /\ \A alias \in SwitchedOffAliases :
               alias \in DOMAIN ret /\ ret[alias] = Bool(FALSE)
        /\ \A key \in DOMAIN args.args \ (SwitchedOff \cup SwitchedOffAliases) :
               ret[key] = args.args[key]
        /\ DOMAIN ret = DOMAIN args.args \cup SwitchedOffAliases
        /\ IsUndefined(args.configOptions.boolean) => ret = args.args

----------------------------------------------------------------------------
(* Claims about the empty line *)

IsBreaksOnly(text) == \A i \in 1..Len(text) : text[i] = NL
\* The logical lines of the description of entry i, less one final line break.
EntryLogicalLines(i) ==
    LET text == args.group[i][2]
    IN Split(IF text # <<>> /\ text[Len(text)] = NL
             THEN Take(text, Len(text) - 1) ELSE text, NL)
\* The number of physical lines each logical line wraps into.
WrappedCounts(lines, width) ==
    [l \in 1..Len(lines) |-> Len(wrapLine(lines[l], width, Undefined))]
\* The number of physical lines the logical lines before line l wrap into.
RECURSIVE PhysicalBefore(_, _)
PhysicalBefore(counts, l) ==
    IF l <= 1 THEN 0 ELSE PhysicalBefore(counts, l - 1) + counts[l - 1]
\* What the first physical line of entry i holds before the description.
EntryPrefix(i) ==
    Repeat(SP, args.leftMargin) \o args.group[i][1]
        \o Repeat(SP, LongestTemplate(args.group) - Len(args.group[i][1]))
        \o args.delim

\* C12: wrapLine("", W, m) returns [""] for every maxWidth W and every
\* leftMarginSize m, no margin added; so that a blank logical line of a
\* text given to wrapText is wrapped into the one line "" (a text of line
\* breaks only is returned as it is), and a blank logical line of a help
\* description takes exactly one physical line of the help, which holds
\* nothing but the entry's prefix or the spaces of the description column.
C12_EmptyLineOneLine ==
    /\ (IsWrapLine /\ args.line = <<>>) => ret = << <<>> >>
    /\ IsWrapText =>
           /\ \A i \in 1..Len(ret.calls) :
                  ret.calls[i].line = <<>> => ret.calls[i].wrappedLines = << <<>> >>
           /\ IsBreaksOnly(args.text) => ret.wrappedText = args.text
    /\ IsHelp =>
           LET all == WrappedEntries
               out == HelpLines
               column == DescColumn
               width == args.rightMargin - column
           IN \A i \in 1..Len(args.group) :
                  LET lines == EntryLogicalLines(i)
                      counts == WrappedCounts(lines, width)
                      start == EntryStart(all, i)
                  IN \A l \in 1..Len(lines) :
                         lines[l] = <<>> =>
                             LET before == PhysicalBefore(counts, l)
                             IN /\ counts[l] = 1
                                /\ start + before <= Len(out)
                                /\ out[start + before]
                                       = (IF before = 0 THEN EntryPrefix(i)
                                          ELSE Repeat(SP, column))
                                /\ Len(all[i]) >= before + 1

\* C12 witness: wrapLine has been given the empty line with a negative
\* width and a margin of two spaces, and has returned the one line "".
C12_Witness ==
    /\ IsWrapLine
    /\ args.line = <<>>
    /\ args.maxWidth < 0
    /\ args.leftMarginSize = Num(2)
    /\ ret = << <<>> >>

----------------------------------------------------------------------------
(* Claims about the number of lines wrapLine returns *)

BeginsWith(s, prefix) ==
    Len(s) >= Len(prefix) /\ SubSeq(s, 1, Len(prefix)) = prefix

\* C13: wrapLine returns at least one line for every line, maxWidth (zero
\* and negative included) and leftMarginSize; so that in the help of
\* generateHelpGroup every entry has a first physical line, which begins
\* with the entry's template-plus-delim prefix, the entries come in input
\* order, every other physical line is blank or begins with the spaces of
\* the description column, and a non-empty template begins as many lines
\* as there are entries with that template, whatever the descriptions and
\* the description width are.
C13_PrefixOnce ==
    /\ IsWrapLine => Len(ret) >= 1
    /\ IsWrapText => \A i \in 1..Len(ret.calls) : Len(ret.calls[i].wrappedLines) >= 1
    /\ IsHelp =>
           LET all == WrappedEntries
               out == HelpLines
               n == Len(args.group)
               margin == Repeat(SP, DescColumn)
               start == [i \in 1..n |-> EntryStart(all, i)]
               prefix == [i \in 1..n |-> EntryPrefix(i)]
               starts == {start[i] : i \in 1..n}
           IN /\ \A i \in 1..n :
                     /\ Len(all[i]) >= 1
                     /\ start[i] <= Len(out) - 1
                     /\ BeginsWith(out[start[i]], prefix[i])
              /\ \A i \in 1..(n - 1) : start[i] < start[i + 1]
              /\ \A j \in 1..(Len(out) - 1) :
                     j \notin starts => out[j] = <<>> \/ BeginsWith(out[j], margin)
              /\ \A i \in 1..n :
                     args.group[i][1] # <<>> =>
                         Cardinality({j \in 1..Len(out) : BeginsWith(out[j], prefix[i])})
                             = Cardinality({k \in 1..n : args.group[k][1] = args.group[i][1]})

\* C13 witness: a help of two entries with different templates and
\* descriptions of several words, rendered at a negative description
\* width, holds the prefix of each entry at the start of its lines.
C13_Witness ==
    /\ IsHelp
    /\ Len(args.group) = 2
    /\ args.rightMargin - DescColumn < 0
    /\ args.group[1][1] # <<>>
    /\ args.group[2][1] = <<>>
    /\ \A i \in 1..2 : Len(Split(args.group[i][2], SP)) >= 2
    /\ \A i \in 1..2 :
           BeginsWith(HelpLines[EntryStart(WrappedEntries, i)], EntryPrefix(i))
    /\ EntryStart(WrappedEntries, 1) < EntryStart(WrappedEntries, 2)

----------------------------------------------------------------------------
(* Claims about the multiplesAllowed array *)

Elements(q) == {q[i] : i \in 1..Len(q)}
\* The names the caller put in the array, and the "_" entries after them.
CallerNames == SelectSeq(multiplesAllowed, LAMBDA name : name # "_")
Pushed == SelectSeq(multiplesAllowed, LAMBDA name : name = "_")

\* C14: keepLastOfDuplicates changes the caller's multiplesAllowed array:
\* each call appends one "_" to it and changes no other element, so that
\* after k successive calls with the same array it is the caller's names
\* followed by k "_" entries; and the names treated as allowed to keep
\* several values are in every one of those calls the caller's names and
\* "_": their values are left alone, and every other array gets the call's
\* assignment.
C14_AllowedListGrows ==
    IsKeepLast =>
        /\ multiplesAllowed = Append(args.multiplesAllowed, "_")
        /\ Len(Pushed) >= 1
        /\ multiplesAllowed = CallerNames \o Pushed
        /\ Len(multiplesAllowed) = Len(CallerNames) + Len(Pushed)
        /\ \A key \in DOMAIN args.args :
               IF key \in Elements(CallerNames) \cup {"_"} \/ ~IsArray(args.args[key])
               THEN ret[key] = args.args[key]
               ELSE ret[key] = SetArrayProperty(args.args[key], key,
                                                LastElement(args.args[key]))

\* C14 witness: the second call with the array that held "b" has left it
\* holding "b" and two "_" entries.
C14_Witness ==
    /\ IsKeepLast
    /\ args.multiplesAllowed = <<"b", "_">>
    /\ multiplesAllowed = <<"b", "_", "_">>
    /\ "a" \in DOMAIN args.args /\ IsArray(args.args["a"])

====
